---- MODULE Spec2Model ----
\* Visual API Builder backend: the catalog (SchemaService), the storage engine as
\* the service drives it (AsyncDatabase over sql.js) and the generated data
\* surface (DynamicRoutesService), as one state machine.  One action per request
\* handler, taken whole (every statement of sql.js is synchronous); create-table
\* is also modelled await by await, for the requests that overlap and for the
\* process that stops between two statements.
EXTENDS Integers, Sequences, FiniteSets, TLC

VARIABLES tables, columns, tableSeq, columnSeq, phys, routes, now, last, file, calls

vars == <<tables, columns, tableSeq, columnSeq, phys, routes, now, last, file, calls>>

-----------------------------------------------------------------------------
\* Bounds of the model.

\* Largest surrogate key the `tables` catalog hands out.
MaxTableId == 2
\* Largest surrogate key the `columns` catalog hands out.
MaxColumnId == 2
\* Largest surrogate key a user table hands out.
MaxRowId == 1
\* Largest surrogate key a user table hands out under SpecData.
MaxRecords == 3
\* Last second of the clock.
MaxClock == 1

-----------------------------------------------------------------------------
\* Names.  A name is a sequence of one-character strings, so that the grammar,
\* the length test and the case folding are computed and not assumed.

LowerSeq == <<"a","b","c","d","e","f","g","h","i","j","k","l","m",
              "n","o","p","q","r","s","t","u","v","w","x","y","z">>
UpperSeq == <<"A","B","C","D","E","F","G","H","I","J","K","L","M",
              "N","O","P","Q","R","S","T","U","V","W","X","Y","Z">>
Letters == {LowerSeq[i] : i \in DOMAIN LowerSeq} \cup {UpperSeq[i] : i \in DOMAIN UpperSeq}
Digits == {"0","1","2","3","4","5","6","7","8","9"}
Whitespace == {" "}

\* String.prototype.toLowerCase on the characters the grammar admits.
UpperToLower ==
  [c \in {UpperSeq[i] : i \in DOMAIN UpperSeq} |->
     LowerSeq[CHOOSE i \in DOMAIN UpperSeq : UpperSeq[i] = c]]

ToLowerChar(c) == IF c \in DOMAIN UpperToLower THEN UpperToLower[c] ELSE c

toLowerCase(name) == [i \in DOMAIN name |-> ToLowerChar(name[i])]

\* /^[a-zA-Z][a-zA-Z0-9_]*$/.test(name)
MatchesGrammar(name) ==
  /\ Len(name) >= 1
  /\ name[1] \in Letters
  /\ \A i \in 2..Len(name) : name[i] \in Letters \cup Digits \cup {"_"}

\* !name || name.trim().length === 0
IsBlank(name) == \A i \in DOMAIN name : name[i] \in Whitespace

MaxNameLength == 50

RESERVED_TABLES == { <<"t","a","b","l","e","s">>,
                     <<"c","o","l","u","m","n","s">>,
                     <<"s","q","l","i","t","e","_","s","e","q","u","e","n","c","e">>,
                     <<"s","q","l","i","t","e","_","m","a","s","t","e","r">> }

RESERVED_COLUMNS == { <<"i","d">>,
                      <<"c","r","e","a","t","e","d","_","a","t">>,
                      <<"u","p","d","a","t","e","d","_","a","t">> }

\* The validation without its test of the reserved names.
validateTableName_NoReserved(name) ==
  \/ IsBlank(name)
  \/ Len(name) > MaxNameLength
  \/ ~MatchesGrammar(name)

\* validateTableName: TRUE when it throws ValidationError.
validateTableName(name) ==
  \/ IsBlank(name)
  \/ Len(name) > MaxNameLength
  \/ ~MatchesGrammar(name)
  \/ toLowerCase(name) \in RESERVED_TABLES

\* validateColumnName: TRUE when it throws ValidationError.
validateColumnName(name) ==
  \/ IsBlank(name)
  \/ Len(name) > MaxNameLength
  \/ ~MatchesGrammar(name)
  \/ toLowerCase(name) \in RESERVED_COLUMNS

-----------------------------------------------------------------------------
\* Values.  A value is tagged with its kind; numbers are kept as numerals.

Undefined == [k |-> "undefined", v |-> ""]
Null == [k |-> "null", v |-> ""]
Text(s) == [k |-> "text", v |-> s]
Num(s) == [k |-> "int", v |-> s]
Bool(b) == [k |-> "bool", v |-> IF b THEN "true" ELSE "false"]

\* Numerals of the model: the strings that read as a number, and the integer
\* each of the whole ones denotes.
Numerals == {"0", "1", "5", "-1.5"}
NumeralInt == ("0" :> 0) @@ ("1" :> 1) @@ ("5" :> 5)

\* CURRENT_TIMESTAMP at second n of the clock.
Stamp(n) == Text("T" \o ToString(n))

\* JavaScript truthiness of a value (x || null, if (x)).
Truthy(x) ==
  /\ x.k \notin {"undefined", "null"}
  /\ ~(x.k = "text" /\ x.v = "")
  /\ ~(x.k = "int" /\ x.v = "0")
  /\ x # Bool(FALSE)

\* dataTypeMappings
dataTypeMappings(data_type) ==
  CASE data_type = "string" -> "TEXT"
    [] data_type = "text" -> "TEXT"
    [] data_type = "number" -> "INTEGER"
    [] data_type = "decimal" -> "REAL"
    [] data_type = "boolean" -> "INTEGER"
    [] data_type = "date" -> "TEXT"
    [] data_type = "datetime" -> "TEXT"

\* The value a statement parameter is bound as: a boolean is bound as the
\* number val + 0.
Bind(x) ==
  CASE x = Bool(TRUE) -> Num("1")
    [] x = Bool(FALSE) -> Num("0")
    [] OTHER -> x

\* The storage engine's column affinity, applied to a value it stores.
Affinity(sqlType, x) ==
  CASE sqlType \in {"INTEGER", "REAL"} /\ x.k = "text" /\ x.v \in Numerals -> Num(x.v)
    [] sqlType = "TEXT" /\ x.k = "int" -> Text(x.v)
    [] OTHER -> x

-----------------------------------------------------------------------------
\* The storage engine, as far as the service's statements reach it.
\* phys maps the folded name of every user table that physically exists to
\* [cols, rows, seq]: the columns added by ALTER TABLE, the records, and the
\* AUTOINCREMENT sequence.  The engine resolves table and column names without
\* regard to case.

PhysKey(name) == toLowerCase(name)

\* AsyncDatabase.  The database in memory is tables, columns, their sequences
\* and phys; file is the content of the database file.
Export ==
  [tables |-> tables, columns |-> columns, tableSeq |-> tableSeq,
   columnSeq |-> columnSeq, phys |-> phys]

\* The write left to the timer that saves every five seconds.
save_Deferred == UNCHANGED file

\* save(): the file takes the content of the database in memory.
save == file' = Export'

\* run and exec over the statements of one handler: a statement that returned
\* is followed by save(); one that threw left the database as it was, and
\* nothing is written for it.
StatementsSaved == IF Export' # Export THEN save ELSE UNCHANGED file

\* Names the engine reserves: CREATE TABLE refuses them.
SqlitePrefix == <<"s","q","l","i","t","e","_">>

HasSqlitePrefix(name) ==
  /\ Len(name) >= Len(SqlitePrefix)
  /\ toLowerCase(SubSeq(name, 1, Len(SqlitePrefix))) = SqlitePrefix

\* Tables and indexes the database plugin creates at start.
EngineObjects == RESERVED_TABLES \cup
  { <<"i","d","x","_","c","o","l","u","m","n","s","_","t","a","b","l","e","_","i","d">>,
    <<"i","d","x","_","t","a","b","l","e","s","_","n","a","m","e">> }

\* The three columns CREATE TABLE gives every user table.
SystemColumns == RESERVED_COLUMNS

\* CREATE TABLE "name" (...) throws.
CreateTableFails(p, name) ==
  \/ HasSqlitePrefix(name)
  \/ PhysKey(name) \in EngineObjects
  \/ PhysKey(name) \in DOMAIN p

EmptyTable == [cols |-> {}, rows |-> {}, seq |-> 0]

\* phys after CREATE TABLE "name" succeeded.
PhysCreate(p, name) ==
  [k \in DOMAIN p \cup {PhysKey(name)} |-> IF k = PhysKey(name) THEN EmptyTable ELSE p[k]]

\* phys after DROP TABLE IF EXISTS "name" (dropping a table drops its sequence).
PhysDrop(p, name) == [k \in DOMAIN p \ {PhysKey(name)} |-> p[k]]

PhysColumnNames(p, name) ==
  SystemColumns \cup {toLowerCase(c.name) : c \in p[PhysKey(name)].cols}

\* ALTER TABLE "tname" ADD COLUMN "cname" type [NOT NULL] [DEFAULT '...'] throws.
AlterFails(p, tname, cname, notnull, dflt) ==
  \/ PhysKey(tname) \notin DOMAIN p
  \/ toLowerCase(cname) \in PhysColumnNames(p, tname)
  \/ notnull /\ dflt = Null /\ p[PhysKey(tname)].rows # {}

\* phys after the ALTER TABLE succeeded: existing records read the default.
PhysAddColumn(p, tname, cname, sqlType, notnull, dflt) ==
  [p EXCEPT ![PhysKey(tname)] =
     [cols |-> @.cols \cup {[name |-> cname, sqlType |-> sqlType,
                             notnull |-> notnull, dflt |-> dflt]},
      rows |-> {[r EXCEPT !.vals = [c \in DOMAIN r.vals \cup {cname} |->
                                     IF c = cname THEN Affinity(sqlType, dflt)
                                     ELSE r.vals[c]]]
                : r \in @.rows},
      seq |-> @.seq]]

ID == <<"i","d">>
CREATED_AT == <<"c","r","e","a","t","e","d","_","a","t">>
UPDATED_AT == <<"u","p","d","a","t","e","d","_","a","t">>

\* A statement names column n among the fields of body, and the value it binds.
Supplied(body, n) == \E f \in DOMAIN body : toLowerCase(f) = toLowerCase(n)

SuppliedValue(body, n) ==
  Bind(body[CHOOSE f \in DOMAIN body : toLowerCase(f) = toLowerCase(n)])

\* A value the INTEGER PRIMARY KEY column takes as a key.
IsRowId(x) == x.k \in {"int", "text"} /\ x.v \in DOMAIN NumeralInt

\* INSERT INTO "tname" (fields of body) VALUES (...) throws.
InsertFails(p, tname, body) ==
  \/ DOMAIN body = {}
  \/ PhysKey(tname) \notin DOMAIN p
  \/ \E f \in DOMAIN body : toLowerCase(f) \notin PhysColumnNames(p, tname)
  \/ \E c \in p[PhysKey(tname)].cols :
       /\ c.notnull
       /\ IF Supplied(body, c.name)
            THEN SuppliedValue(body, c.name) = Null
            ELSE c.dflt = Null
  \/ /\ Supplied(body, ID)
     /\ SuppliedValue(body, ID) # Null
     /\ \/ ~IsRowId(SuppliedValue(body, ID))
        \/ \E r \in p[PhysKey(tname)].rows : r.id = NumeralInt[SuppliedValue(body, ID).v]

\* The record the INSERT stores when the key is declared without AUTOINCREMENT:
\* the key after the largest one present.
InsertedRow_ReusesKeys(p, tname, body, t) ==
  LET tab == p[PhysKey(tname)]
      ids == {r.id : r \in tab.rows}
  IN
  [id |-> IF ids = {} THEN 1 ELSE 1 + CHOOSE i \in ids : \A j \in ids : j <= i,
   created_at |-> Stamp(t),
   updated_at |-> Stamp(t),
   vals |-> [n \in {c.name : c \in tab.cols} |->
              LET c == CHOOSE pc \in tab.cols : pc.name = n IN
              IF Supplied(body, n)
                THEN Affinity(c.sqlType, SuppliedValue(body, n))
                ELSE Affinity(c.sqlType, c.dflt)]]

\* The record the INSERT stores at second t of the clock: supplied fields,
\* defaults for the others, the next key of the AUTOINCREMENT sequence.
InsertedRow(p, tname, body, t) ==
  LET tab == p[PhysKey(tname)] IN
  [id |-> IF Supplied(body, ID) /\ SuppliedValue(body, ID) # Null
            THEN NumeralInt[SuppliedValue(body, ID).v]
            ELSE tab.seq + 1,
   created_at |-> IF Supplied(body, CREATED_AT)
                    THEN SuppliedValue(body, CREATED_AT) ELSE Stamp(t),
   updated_at |-> IF Supplied(body, UPDATED_AT)
                    THEN SuppliedValue(body, UPDATED_AT) ELSE Stamp(t),
   vals |-> [n \in {c.name : c \in tab.cols} |->
              LET c == CHOOSE pc \in tab.cols : pc.name = n IN
              IF Supplied(body, n)
                THEN Affinity(c.sqlType, SuppliedValue(body, n))
                ELSE Affinity(c.sqlType, c.dflt)]]

PhysInsert(p, tname, body, t) ==
  LET row == InsertedRow(p, tname, body, t) IN
  [p EXCEPT ![PhysKey(tname)] =
     [cols |-> @.cols,
      rows |-> @.rows \cup {row},
      seq |-> IF row.id > @.seq THEN row.id ELSE @.seq]]

\* SELECT ... FROM "tname" throws.
SelectFails(p, tname) == PhysKey(tname) \notin DOMAIN p

-----------------------------------------------------------------------------
\* Inputs of the model.

T_lower == <<"t">>
C1 == <<"c","1">>
C2 == <<"c","2">>

\* Table names a create-table request may carry: a plain name, a name the engine
\* reserves, a name the service reserves, a name outside the grammar.
TableNames == {T_lower, SqlitePrefix, <<"t","a","b","l","e","s">>, <<"1">>}

\* Further valid table names, carried under SpecTables: another plain name and
\* one that differs from T_lower in case only.
MoreTableNames == {<<"u">>, <<"T">>}

\* Table names a data request may carry.
DataNames == {T_lower}

\* Names a request may carry that the validation refuses: reserved names in
\* another case, and a name of 51 characters.
TablesUpper == <<"T","a","b","l","e","s">>
IdUpper == <<"I","D">>
LongName == [i \in 1..(MaxNameLength + 1) |-> "a"]

\* Column declarations a request may carry (ColumnCreate without table_id).
ColumnInputs ==
  {[name |-> C1, data_type |-> "string", is_required |-> TRUE,
    is_unique |-> u, default_value |-> Undefined] : u \in BOOLEAN}
  \cup
  {[name |-> C2, data_type |-> "number", is_required |-> FALSE,
    is_unique |-> FALSE, default_value |-> Text("0")]}
  \cup
  {[name |-> <<"i","d">>, data_type |-> "number", is_required |-> FALSE,
    is_unique |-> FALSE, default_value |-> Undefined]}

-----------------------------------------------------------------------------
\* Responses.  last is the last completed request and its response; body is
\* the request's body, the querystring parameters for List, the attributes
\* given to updateColumn.

NoName == <<>>
NoBody == <<>>
NoRow == [id |-> 0, created_at |-> Null, updated_at |-> Null, vals |-> <<>>]
NoPage == [data |-> <<>>, total |-> 0, limit |-> 0, offset |-> 0, hasMore |-> FALSE]

Response(op, name, id, status, code) ==
  [op |-> op, name |-> name, id |-> id, unique |-> FALSE, handled |-> TRUE,
   status |-> status, code |-> code, message |-> "", body |-> NoBody, data |-> NoRow,
   page |-> NoPage]

\* Errors as they are thrown.  app: an instance of AppError; validation: the
\* framework's validation error; message: where its text comes from, the
\* service's own wording, the validator's, or the storage engine's.
AppError(statusCode, code) ==
  [app |-> TRUE, validation |-> FALSE, statusCode |-> statusCode, code |-> code,
   message |-> "service"]
FastifyValidationError ==
  [app |-> FALSE, validation |-> TRUE, statusCode |-> 400, code |-> "FST_ERR_VALIDATION",
   message |-> "validator"]
EngineError ==
  [app |-> FALSE, validation |-> FALSE, statusCode |-> 0, code |-> "",
   message |-> "engine"]

RequestValidationFailed == "Request validation failed"
AnUnexpectedErrorOccurred == "An unexpected error occurred"

\* The handler that answers an unexpected error with the error's own text.
setErrorHandler_SendsMessage(error) ==
  IF error.app
    THEN [status |-> error.statusCode, code |-> error.code, message |-> error.message]
  ELSE IF error.validation
    THEN [status |-> 400, code |-> "VALIDATION_ERROR", message |-> RequestValidationFailed]
  ELSE [status |-> 500, code |-> "INTERNAL_SERVER_ERROR", message |-> error.message]

\* The global error handler: the status, code and message it sends.
setErrorHandler(error) ==
  IF error.app
    THEN [status |-> error.statusCode, code |-> error.code, message |-> error.message]
  ELSE IF error.validation
    THEN [status |-> 400, code |-> "VALIDATION_ERROR", message |-> RequestValidationFailed]
  ELSE [status |-> 500, code |-> "INTERNAL_SERVER_ERROR", message |-> AnUnexpectedErrorOccurred]

\* The response to a request whose handler or validation threw error.
Failed(op, name, id, error) ==
  [Response(op, name, id, setErrorHandler(error).status, setErrorHandler(error).code)
     EXCEPT !.message = setErrorHandler(error).message]

\* The AppError subclasses, a body, query or parameter the route's schema
\* refuses, and any error of the storage engine.
ValidationError(op, name, id) == Failed(op, name, id, AppError(400, "VALIDATION_ERROR"))
NotFoundError(op, name, id) == Failed(op, name, id, AppError(404, "NOT_FOUND"))
DuplicateError(op, name, id) == Failed(op, name, id, AppError(409, "DUPLICATE_ERROR"))
BadRequestError(op, name, id) == Failed(op, name, id, AppError(400, "BAD_REQUEST"))
SchemaError(op, name, id) == Failed(op, name, id, FastifyValidationError)
InternalError(op, name, id) == Failed(op, name, id, EngineError)

\* The requests in progress: calls maps a caller to the createTable it has
\* under way, the position it has reached and what it holds.
Callers == {"a", "b"}
NoCall == [pc |-> "idle", name |-> NoName, existing |-> FALSE, lastID |-> 0,
           status |-> 0, code |-> ""]
NoCalls == [i \in Callers |-> NoCall]

-----------------------------------------------------------------------------
\* SchemaService and the catalog routes.
\* tables: rows [id, name] of the `tables` catalog; columns: rows of the
\* `columns` catalog; tableSeq, columnSeq: their AUTOINCREMENT sequences.

getTable(id) == {t \in tables : t.id = id}

\* The lookup by name finds nothing.
getTableByName_Misses(name) == {}

getTableByName(name) == {t \in tables : t.name = name}

getColumn(id) == {c \in columns : c.id = id}

listColumns(tableId) == {c \in columns : c.table_id = tableId}

\* TableCreateSchema / ColumnCreateSchema: name is a string of 1..50 characters.
NameSchemaRejects(name) == Len(name) < 1 \/ Len(name) > MaxNameLength

\* INSERT INTO tables violates UNIQUE(name).
TablesInsertFails(name) == \E t \in tables : t.name = name

\* INSERT INTO columns violates UNIQUE(table_id, name).
ColumnsInsertFails(tableId, name) ==
  \E c \in columns : c.table_id = tableId /\ c.name = name

\* The catalog rows DELETE FROM tables WHERE id = ? leaves in `columns`:
\* the connection never enables foreign keys, so ON DELETE CASCADE is inert.
ColumnsAfterTableDelete(id) == columns

\* The operation with the catalog insert ahead of the name validation.
createTable_InsertsFirst(name) ==
  /\ IF NameSchemaRejects(name)
       THEN /\ last' = SchemaError("createTable", name, 0)
            /\ UNCHANGED <<tables, tableSeq, phys>>
     ELSE IF TablesInsertFails(name)
       THEN /\ last' = InternalError("createTable", name, 0)
            /\ UNCHANGED <<tables, tableSeq, phys>>
     ELSE /\ tableSeq < MaxTableId
          /\ tableSeq' = tableSeq + 1
          /\ tables' = tables \cup {[id |-> tableSeq + 1, name |-> name]}
          /\ IF validateTableName(name)
               THEN /\ last' = ValidationError("createTable", name, 0)
                    /\ UNCHANGED phys
             ELSE IF CreateTableFails(phys, name)
               THEN /\ last' = InternalError("createTable", name, 0)
                    /\ UNCHANGED phys
             ELSE /\ phys' = PhysCreate(phys, name)
                  /\ last' = Response("createTable", name, tableSeq + 1, 201, "")
  /\ UNCHANGED <<columns, columnSeq, routes, now, calls>>
  /\ StatementsSaved

\* POST /tables {name}
createTable(name) ==
  /\ IF NameSchemaRejects(name) \/ validateTableName(name)
       THEN /\ last' = IF NameSchemaRejects(name)
                          THEN SchemaError("createTable", name, 0)
                          ELSE ValidationError("createTable", name, 0)
            /\ UNCHANGED <<tables, tableSeq, phys>>
     ELSE IF getTableByName(name) # {}
       THEN /\ last' = DuplicateError("createTable", name, 0)
            /\ UNCHANGED <<tables, tableSeq, phys>>
     ELSE IF TablesInsertFails(name)
       THEN /\ last' = InternalError("createTable", name, 0)
            /\ UNCHANGED <<tables, tableSeq, phys>>
     ELSE /\ tableSeq < MaxTableId
          /\ tableSeq' = tableSeq + 1
          /\ tables' = tables \cup {[id |-> tableSeq + 1, name |-> name]}
          /\ IF CreateTableFails(phys, name)
               THEN /\ last' = InternalError("createTable", name, 0)
                    /\ UNCHANGED phys
               ELSE /\ phys' = PhysCreate(phys, name)
                    /\ last' = Response("createTable", name, tableSeq + 1, 201, "")
  /\ UNCHANGED <<columns, columnSeq, routes, now, calls>>
  /\ StatementsSaved

\* POST /tables {name} as the event loop runs it.  Every await of createTable
\* hands control back, so the calls of two requests take turns between the
\* statements: the lookup by name, the INSERT, the CREATE TABLE, the reply.
\* Nothing in the service or in AsyncDatabase holds one call back for another.
Replied(i, response) ==
  /\ calls' = [calls EXCEPT ![i] = [@ EXCEPT !.pc = "done",
                                              !.status = response.status,
                                              !.code = response.code]]
  /\ last' = response

\* The request arrives: body validation, validateTableName, getTableByName.
createTable_lookup(i, name) ==
  /\ calls[i].pc = "idle"
  /\ IF NameSchemaRejects(name)
       THEN Replied(i, SchemaError("createTable", name, 0))
     ELSE IF validateTableName(name)
       THEN Replied(i, ValidationError("createTable", name, 0))
     ELSE /\ calls' = [calls EXCEPT ![i] = [NoCall EXCEPT !.pc = "looked up",
                                                         !.name = name,
                                                         !.existing = getTableByName(name) # {}]]
          /\ UNCHANGED last
  /\ UNCHANGED <<tables, columns, tableSeq, columnSeq, phys, routes, now, file>>

\* if (existing) throw DuplicateError; db.run(INSERT INTO tables ...)
createTable_insert(i) ==
  /\ calls[i].pc = "looked up"
  /\ IF calls[i].existing
       THEN /\ Replied(i, DuplicateError("createTable", calls[i].name, 0))
            /\ UNCHANGED <<tables, tableSeq, file>>
     ELSE IF TablesInsertFails(calls[i].name)
       THEN /\ Replied(i, InternalError("createTable", calls[i].name, 0))
            /\ UNCHANGED <<tables, tableSeq, file>>
     ELSE /\ tableSeq < MaxTableId
          /\ tableSeq' = tableSeq + 1
          /\ tables' = tables \cup {[id |-> tableSeq + 1, name |-> calls[i].name]}
          /\ calls' = [calls EXCEPT ![i] = [@ EXCEPT !.pc = "inserted",
                                                     !.lastID = tableSeq + 1]]
          /\ UNCHANGED <<columns, columnSeq, phys>>
          /\ save
          /\ UNCHANGED last
  /\ UNCHANGED <<columns, columnSeq, phys, routes, now>>

\* db.exec(CREATE TABLE "name" ...)
createTable_exec(i) ==
  /\ calls[i].pc = "inserted"
  /\ IF CreateTableFails(phys, calls[i].name)
       THEN /\ Replied(i, InternalError("createTable", calls[i].name, 0))
            /\ UNCHANGED <<phys, file>>
       ELSE /\ phys' = PhysCreate(phys, calls[i].name)
            /\ calls' = [calls EXCEPT ![i] = [@ EXCEPT !.pc = "created"]]
            /\ UNCHANGED <<tables, columns, tableSeq, columnSeq>>
            /\ save
            /\ UNCHANGED last
  /\ UNCHANGED <<tables, columns, tableSeq, columnSeq, routes, now>>

\* getTable(lastID); reply.code(201).send({data: table})
createTable_reply(i) ==
  /\ calls[i].pc = "created"
  /\ Replied(i, Response("createTable", calls[i].name, calls[i].lastID, 201, ""))
  /\ UNCHANGED <<tables, columns, tableSeq, columnSeq, phys, routes, now, file>>

\* DELETE /tables/{id}
deleteTable(id) ==
  /\ IF getTable(id) = {}
       THEN /\ last' = NotFoundError("deleteTable", NoName, id)
            /\ UNCHANGED <<tables, columns, phys>>
       ELSE LET table == CHOOSE t \in tables : t.id = id IN
            /\ phys' = PhysDrop(phys, table.name)
            /\ tables' = tables \ {table}
            /\ columns' = ColumnsAfterTableDelete(id)
            /\ last' = Response("deleteTable", table.name, id, 204, "")
  /\ UNCHANGED <<tableSeq, columnSeq, routes, now, calls>>
  /\ StatementsSaved

\* The catalog row createColumn inserts.
ColumnRow(id, tableId, data) ==
  [id |-> id, table_id |-> tableId, name |-> data.name, data_type |-> data.data_type,
   is_required |-> data.is_required, is_unique |-> data.is_unique,
   default_value |-> IF Truthy(data.default_value) THEN data.default_value ELSE Null]

\* POST /columns {table_id, name, data_type, is_required, is_unique, default_value}
createColumn(tableId, data) ==
  /\ IF NameSchemaRejects(data.name) \/ validateColumnName(data.name)
       THEN /\ last' = [(IF NameSchemaRejects(data.name)
                            THEN SchemaError("createColumn", data.name, tableId)
                            ELSE ValidationError("createColumn", data.name, tableId))
                          EXCEPT !.unique = data.is_unique]
            /\ UNCHANGED <<columns, columnSeq, phys>>
     ELSE IF getTable(tableId) = {}
       THEN /\ last' = [NotFoundError("createColumn", data.name, tableId)
                          EXCEPT !.unique = data.is_unique]
            /\ UNCHANGED <<columns, columnSeq, phys>>
     ELSE IF \E c \in columns : c.table_id = tableId /\ c.name = data.name
       THEN /\ last' = [DuplicateError("createColumn", data.name, tableId)
                          EXCEPT !.unique = data.is_unique]
            /\ UNCHANGED <<columns, columnSeq, phys>>
     ELSE IF ColumnsInsertFails(tableId, data.name)
       THEN /\ last' = [InternalError("createColumn", data.name, tableId)
                          EXCEPT !.unique = data.is_unique]
            /\ UNCHANGED <<columns, columnSeq, phys>>
     ELSE LET table == CHOOSE t \in tables : t.id = tableId
              notnull == data.is_required
              dflt == IF Truthy(data.default_value) THEN data.default_value ELSE Null
          IN
          /\ columnSeq < MaxColumnId
          /\ columnSeq' = columnSeq + 1
          /\ columns' = columns \cup {ColumnRow(columnSeq + 1, tableId, data)}
          /\ IF data.is_unique
               THEN /\ last' = [BadRequestError("createColumn", data.name, tableId)
                                  EXCEPT !.unique = TRUE]
                    /\ UNCHANGED phys
             ELSE IF AlterFails(phys, table.name, data.name, notnull, dflt)
               THEN /\ last' = InternalError("createColumn", data.name, tableId)
                    /\ UNCHANGED phys
             ELSE /\ phys' = PhysAddColumn(phys, table.name, data.name,
                                           dataTypeMappings(data.data_type), notnull, dflt)
                  /\ last' = Response("createColumn", data.name, tableId, 201, "")
  /\ UNCHANGED <<tables, tableSeq, routes, now, calls>>
  /\ StatementsSaved

\* UPDATE columns SET name = ? ... WHERE id = ? violates UNIQUE(table_id, name).
ColumnsUpdateFails(column, data) ==
  /\ "name" \in DOMAIN data
  /\ \E c \in columns \ {column} : c.table_id = column.table_id /\ c.name = data["name"]

\* The statement that sets every attribute, the absent ones to their defaults.
UpdatedColumn_OverwritesAbsent(column, data) ==
  [column EXCEPT
     !.name = IF "name" \in DOMAIN data THEN data["name"] ELSE @,
     !.is_required = IF "is_required" \in DOMAIN data THEN data["is_required"] ELSE FALSE,
     !.is_unique = IF "is_unique" \in DOMAIN data THEN data["is_unique"] ELSE FALSE,
     !.default_value = IF "default_value" \in DOMAIN data THEN data["default_value"] ELSE Null]

\* The catalog row after UPDATE columns SET <fields of data> WHERE id = ?
UpdatedColumn(column, data) ==
  [column EXCEPT
     !.name = IF "name" \in DOMAIN data THEN data["name"] ELSE @,
     !.is_required = IF "is_required" \in DOMAIN data THEN data["is_required"] ELSE @,
     !.is_unique = IF "is_unique" \in DOMAIN data THEN data["is_unique"] ELSE @,
     !.default_value = IF "default_value" \in DOMAIN data THEN data["default_value"] ELSE @]

\* SchemaService.updateColumn(id, data): data is a function from the
\* attributes it carries.  No route of the server calls it.
updateColumn(id, data) ==
  /\ IF getColumn(id) = {}
       THEN /\ last' = [NotFoundError("updateColumn", NoName, id) EXCEPT !.body = data]
            /\ UNCHANGED columns
     ELSE LET column == CHOOSE c \in columns : c.id = id IN
          IF "name" \in DOMAIN data /\ validateColumnName(data["name"])
            THEN /\ last' = [ValidationError("updateColumn", data["name"], id)
                               EXCEPT !.body = data]
                 /\ UNCHANGED columns
          ELSE IF DOMAIN data = {}
            THEN /\ last' = [Response("updateColumn", column.name, id, 200, "")
                               EXCEPT !.body = data]
                 /\ UNCHANGED columns
          ELSE IF ColumnsUpdateFails(column, data)
            THEN /\ last' = [InternalError("updateColumn", data["name"], id)
                               EXCEPT !.body = data]
                 /\ UNCHANGED columns
          ELSE /\ columns' = (columns \ {column}) \cup {UpdatedColumn(column, data)}
               /\ last' = [Response("updateColumn", UpdatedColumn(column, data).name,
                                     id, 200, "")
                             EXCEPT !.body = data]
  /\ UNCHANGED <<tables, tableSeq, columnSeq, phys, routes, now, calls>>
  /\ StatementsSaved

\* The operation with a physical migration: the column and its values are
\* dropped from the user table as well.
deleteColumn_DropsPhysical(id) ==
  /\ IF getColumn(id) = {}
       THEN /\ last' = NotFoundError("deleteColumn", NoName, id)
            /\ UNCHANGED <<columns, phys>>
     ELSE LET column == CHOOSE c \in columns : c.id = id IN
          IF getTable(column.table_id) = {}
            THEN /\ last' = NotFoundError("deleteColumn", column.name, id)
                 /\ UNCHANGED <<columns, phys>>
            ELSE LET k == PhysKey((CHOOSE t \in tables : t.id = column.table_id).name) IN
                 /\ columns' = columns \ {column}
                 /\ phys' = IF k \in DOMAIN phys
                              THEN [phys EXCEPT ![k] =
                                     [cols |-> {c \in @.cols : c.name # column.name},
                                      rows |-> {[r EXCEPT !.vals =
                                                   [n \in DOMAIN r.vals \ {column.name} |-> r.vals[n]]]
                                                : r \in @.rows},
                                      seq |-> @.seq]]
                              ELSE phys
                 /\ last' = Response("deleteColumn", column.name, id, 204, "")
  /\ UNCHANGED <<tables, tableSeq, columnSeq, routes, now, calls>>
  /\ StatementsSaved

\* DELETE /columns/{id}
deleteColumn(id) ==
  /\ IF getColumn(id) = {}
       THEN /\ last' = NotFoundError("deleteColumn", NoName, id)
            /\ UNCHANGED columns
     ELSE LET column == CHOOSE c \in columns : c.id = id IN
          IF getTable(column.table_id) = {}
            THEN /\ last' = NotFoundError("deleteColumn", column.name, id)
                 /\ UNCHANGED columns
            ELSE /\ columns' = columns \ {column}
                 /\ last' = Response("deleteColumn", column.name, id, 204, "")
  /\ UNCHANGED <<tables, tableSeq, columnSeq, phys, routes, now, calls>>
  /\ StatementsSaved

-----------------------------------------------------------------------------
\* DynamicRoutesService.
\* routes maps every registered table name (registeredTables) to what its five
\* handlers captured when they were mounted: the table row and its columns.

\* The JSON type a column's values are validated as.
getTypeBoxType(column) ==
  CASE column.data_type \in {"string", "text"} -> "string"
    [] column.data_type \in {"number", "decimal"} -> "number"
    [] column.data_type = "boolean" -> "boolean"
    [] column.data_type \in {"date", "datetime"} -> "string"
    [] OTHER -> "string"

UserColumns(cols) == {c \in cols : c.name \notin RESERVED_COLUMNS}

TypeOf(cols, n) == getTypeBoxType(CHOOSE c \in cols : c.name = n)

\* generateCreateSchema: Type.Object(properties, {additionalProperties: false}).
\* No property is wrapped in Type.Optional, so the object requires every one of
\* them; the `required` list the method collects is not passed on.
generateCreateSchema(cols) ==
  [properties |-> [n \in {c.name : c \in UserColumns(cols)} |-> TypeOf(cols, n)],
   required |-> {c.name : c \in UserColumns(cols)}]

\* generateUpdateSchema: every property is Type.Optional.
generateUpdateSchema(cols) ==
  [properties |-> [n \in {c.name : c \in UserColumns(cols)} |-> TypeOf(cols, n)],
   required |-> {}]

\* The validator's type coercion of one value; Undefined when it has none.
Coerce(type, x) ==
  CASE type = "string" /\ x.k = "text" -> x
    [] type = "string" /\ x.k \in {"int", "bool"} -> Text(x.v)
    [] type = "string" /\ x = Null -> Text("")
    [] type = "number" /\ x.k = "int" -> x
    [] type = "number" /\ x.k = "text" /\ x.v \in Numerals -> Num(x.v)
    [] type = "number" /\ x.k = "bool" -> Bind(x)
    [] type = "number" /\ x = Null -> Num("0")
    [] type = "boolean" /\ x.k = "bool" -> x
    [] type = "boolean" /\ x \in {Text("true"), Num("1")} -> Bool(TRUE)
    [] type = "boolean" /\ x \in {Text("false"), Num("0"), Null} -> Bool(FALSE)
    [] OTHER -> Undefined

\* The validation that leaves the properties the schema does not name in place.
ValidateBody_KeepsAdditional(schema, body) ==
  LET coerced == [f \in DOMAIN body |->
                    IF f \in DOMAIN schema.properties
                      THEN Coerce(schema.properties[f], body[f]) ELSE body[f]]
  IN [ok |-> /\ schema.required \subseteq DOMAIN body
             /\ \A f \in DOMAIN body : coerced[f] # Undefined,
      body |-> coerced]

\* The route's body validation (the framework's validator in its default
\* configuration): properties the schema does not name are removed, then the
\* required properties and the types are checked, values coerced to the type.
ValidateBody(schema, body) ==
  LET kept == DOMAIN body \cap DOMAIN schema.properties
      coerced == [f \in kept |-> Coerce(schema.properties[f], body[f])]
  IN [ok |-> /\ schema.required \subseteq kept
             /\ \A f \in kept : coerced[f] # Undefined,
      body |-> coerced]

\* validateRequiredFields: TRUE when it throws ValidationError.
validateRequiredFields(cols, data) ==
  \E c \in cols :
    /\ c.is_required
    /\ c.name \notin RESERVED_COLUMNS
    /\ \/ c.name \notin DOMAIN data
       \/ data[c.name] = Null
       \/ data[c.name] = Text("")

\* The method without its test of registeredTables: the handlers are mounted
\* again, over the table's current columns.
registerRoutesForTable_NoGuard(r, table) ==
  [n \in DOMAIN r \cup {table.name} |->
     IF n = table.name
       THEN [table |-> table, columns |-> listColumns(table.id)]
       ELSE r[n]]

\* registerRoutesForTable: nothing when the name is registered already.
registerRoutesForTable(r, table) ==
  IF table.name \in DOMAIN r
    THEN r
    ELSE [n \in DOMAIN r \cup {table.name} |->
            IF n = table.name
              THEN [table |-> table, columns |-> listColumns(table.id)]
              ELSE r[n]]

\* loadAndRegisterAllRoutes: registerRoutesForTable for every catalog table.
RECURSIVE RegisterAll(_, _)
RegisterAll(r, todo) ==
  IF todo = {} THEN r
  ELSE LET table == CHOOSE t \in todo : TRUE IN
       RegisterAll(registerRoutesForTable(r, table), todo \ {table})

\* The method that stops after the first table of the list.
loadAndRegisterAllRoutes_FirstOnly(r) ==
  IF tables = {} THEN r
  ELSE registerRoutesForTable(r, CHOOSE t \in tables : \A u \in tables : t.id <= u.id)

loadAndRegisterAllRoutes(r) == RegisterAll(r, tables)

\* DynamicRoutesService.refreshRoutes().  No route of the server calls it.
refreshRoutes ==
  /\ routes' = loadAndRegisterAllRoutes(routes)
  /\ last' = Response("refreshRoutes", NoName, 0, 0, "")
  /\ UNCHANGED <<tables, columns, tableSeq, columnSeq, phys, now, file, calls>>

\* The framework's answer for a path no route is mounted on.
RouteNotFound(op, name, id) ==
  [Response(op, name, id, 404, "Not Found") EXCEPT !.handled = FALSE]

\* Requests of the model on a data surface.
BodyValues == {Text(""), Text("A"), Num("5")}
FieldValues(f) == IF f = C1 THEN {Text(""), Text("A")} ELSE {Num("5")}
Bodies ==
  UNION {{b \in [fields -> BodyValues] : \A f \in fields : b[f] \in FieldValues(f)}
         : fields \in SUBSET {C1, C2}}
RowIds == 1..MaxRowId

RowsOf(name) == phys[PhysKey(name)].rows

\* The querystring schema of List: limit 1..100, default 20; offset >= 0,
\* default 0.  A query is a function from the parameters it carries.
DefaultLimit == 20
MaxLimit == 100

QuerySchemaRejects(query) ==
  \/ "limit" \in DOMAIN query /\ (query["limit"] < 1 \/ query["limit"] > MaxLimit)
  \/ "offset" \in DOMAIN query /\ query["offset"] < 0

\* SELECT * FROM "tname": the engine scans the table in key order.
RECURSIVE SelectAll(_)
SelectAll(rows) ==
  IF rows = {} THEN <<>>
  ELSE LET r == CHOOSE x \in rows : \A y \in rows : x.id <= y.id IN
       <<r>> \o SelectAll(rows \ {r})

\* The statement without its OFFSET clause.
SelectPage_NoOffset(rows, limit, offset) ==
  SubSeq(SelectAll(rows), 1, IF limit < Cardinality(rows) THEN limit ELSE Cardinality(rows))

\* SELECT * FROM "tname" LIMIT limit OFFSET offset
SelectPage(rows, limit, offset) ==
  LET all == SelectAll(rows)
      hi == IF offset + limit < Len(all) THEN offset + limit ELSE Len(all)
  IN SubSeq(all, offset + 1, hi)

\* GET /api/v1/data/{name}?limit&offset
listRecords(name, query) ==
  /\ IF name \notin DOMAIN routes
       THEN last' = [RouteNotFound("list", name, 0) EXCEPT !.body = query]
     ELSE IF QuerySchemaRejects(query)
       THEN last' = [SchemaError("list", name, 0) EXCEPT !.body = query]
     ELSE IF SelectFails(phys, routes[name].table.name)
       THEN last' = [InternalError("list", name, 0) EXCEPT !.body = query]
     ELSE LET limit == IF "limit" \in DOMAIN query THEN query["limit"] ELSE DefaultLimit
              offset == IF "offset" \in DOMAIN query THEN query["offset"] ELSE 0
              total == Cardinality(RowsOf(name))
              records == SelectPage(RowsOf(name), limit, offset)
          IN last' = [Response("list", name, 0, 200, "")
                        EXCEPT !.body = query,
                               !.page = [data |-> records, total |-> total,
                                         limit |-> limit, offset |-> offset,
                                         hasMore |-> offset + Len(records) < total]]
  /\ UNCHANGED <<tables, columns, tableSeq, columnSeq, phys, routes, now, file, calls>>

\* The handler without its test of the record it read.
getRecord_NoExistenceCheck(name, id) ==
  /\ last' = IF name \notin DOMAIN routes THEN RouteNotFound("get", name, id)
             ELSE IF SelectFails(phys, routes[name].table.name)
               THEN InternalError("get", name, id)
             ELSE Response("get", name, id, 200, "")
  /\ UNCHANGED <<tables, columns, tableSeq, columnSeq, phys, routes, now, file, calls>>

\* GET /api/v1/data/{name}/{id}
getRecord(name, id) ==
  /\ IF name \notin DOMAIN routes
       THEN last' = RouteNotFound("get", name, id)
     ELSE IF SelectFails(phys, routes[name].table.name)
       THEN last' = InternalError("get", name, id)
     ELSE IF \A r \in RowsOf(name) : r.id # id
       THEN last' = NotFoundError("get", name, id)
     ELSE last' = [Response("get", name, id, 200, "")
                     EXCEPT !.data = CHOOSE r \in RowsOf(name) : r.id = id]
  /\ UNCHANGED <<tables, columns, tableSeq, columnSeq, phys, routes, now, file, calls>>

\* POST /api/v1/data/{name}
createRecord(name, body) ==
  /\ IF name \notin DOMAIN routes
       THEN /\ last' = [RouteNotFound("create", name, 0) EXCEPT !.body = body]
            /\ UNCHANGED phys
     ELSE LET table == routes[name].table
              cols == routes[name].columns
              v == ValidateBody(generateCreateSchema(cols), body)
          IN
          IF ~v.ok \/ validateRequiredFields(cols, v.body)
            THEN /\ last' = [(IF ~v.ok THEN SchemaError("create", name, 0)
                                ELSE ValidationError("create", name, 0))
                               EXCEPT !.body = body]
                 /\ UNCHANGED phys
          ELSE IF InsertFails(phys, table.name, v.body)
            THEN /\ last' = [InternalError("create", name, 0) EXCEPT !.body = body]
                 /\ UNCHANGED phys
          ELSE /\ phys' = PhysInsert(phys, table.name, v.body, now)
               /\ last' = [Response("create", name,
                                     InsertedRow(phys, table.name, v.body, now).id, 201, "")
                             EXCEPT !.body = body,
                                    !.data = InsertedRow(phys, table.name, v.body, now)]
  /\ UNCHANGED <<tables, columns, tableSeq, columnSeq, routes, now, calls>>
  /\ StatementsSaved

\* UPDATE "tname" SET <fields of body>, updated_at = CURRENT_TIMESTAMP throws:
\* with no field the SET clause starts with a comma.
UpdateFails(p, tname, row, body) ==
  \/ DOMAIN body = {}
  \/ PhysKey(tname) \notin DOMAIN p
  \/ \E f \in DOMAIN body : toLowerCase(f) \notin PhysColumnNames(p, tname)
  \/ \E c \in p[PhysKey(tname)].cols :
       c.notnull /\ Supplied(body, c.name) /\ SuppliedValue(body, c.name) = Null
  \/ /\ Supplied(body, ID)
     /\ \/ ~IsRowId(SuppliedValue(body, ID))
        \/ \E r \in p[PhysKey(tname)].rows \ {row} :
             r.id = NumeralInt[SuppliedValue(body, ID).v]

\* The record after the UPDATE at second t of the clock.
UpdatedRow(p, tname, row, body, t) ==
  LET tab == p[PhysKey(tname)] IN
  [id |-> IF Supplied(body, ID) THEN NumeralInt[SuppliedValue(body, ID).v] ELSE row.id,
   created_at |-> IF Supplied(body, CREATED_AT)
                    THEN SuppliedValue(body, CREATED_AT) ELSE row.created_at,
   updated_at |-> Stamp(t),
   vals |-> [n \in DOMAIN row.vals |->
              LET c == CHOOSE pc \in tab.cols : pc.name = n IN
              IF Supplied(body, n)
                THEN Affinity(c.sqlType, SuppliedValue(body, n))
                ELSE row.vals[n]]]

PhysUpdate(p, tname, row, body, t) ==
  [p EXCEPT ![PhysKey(tname)].rows = (@ \ {row}) \cup {UpdatedRow(p, tname, row, body, t)}]

PhysDelete(p, tname, row) ==
  [p EXCEPT ![PhysKey(tname)].rows = @ \ {row}]

\* PUT /api/v1/data/{name}/{id}
updateRecord(name, id, body) ==
  /\ IF name \notin DOMAIN routes
       THEN /\ last' = [RouteNotFound("update", name, id) EXCEPT !.body = body]
            /\ UNCHANGED phys
     ELSE LET table == routes[name].table
              v == ValidateBody(generateUpdateSchema(routes[name].columns), body)
          IN
          IF ~v.ok
            THEN /\ last' = [SchemaError("update", name, id) EXCEPT !.body = body]
                 /\ UNCHANGED phys
          ELSE IF SelectFails(phys, table.name)
            THEN /\ last' = [InternalError("update", name, id) EXCEPT !.body = body]
                 /\ UNCHANGED phys
          ELSE IF \A r \in RowsOf(name) : r.id # id
            THEN /\ last' = [NotFoundError("update", name, id) EXCEPT !.body = body]
                 /\ UNCHANGED phys
          ELSE LET row == CHOOSE r \in RowsOf(name) : r.id = id IN
               IF UpdateFails(phys, table.name, row, v.body)
                 THEN /\ last' = [InternalError("update", name, id) EXCEPT !.body = body]
                      /\ UNCHANGED phys
                 ELSE /\ phys' = PhysUpdate(phys, table.name, row, v.body, now)
                      /\ last' = [Response("update", name, id, 200, "")
                                    EXCEPT !.body = body,
                                           !.data = UpdatedRow(phys, table.name, row, v.body, now)]
  /\ UNCHANGED <<tables, columns, tableSeq, columnSeq, routes, now, calls>>
  /\ StatementsSaved

\* DELETE /api/v1/data/{name}/{id}
deleteRecord(name, id) ==
  /\ IF name \notin DOMAIN routes
       THEN /\ last' = RouteNotFound("delete", name, id)
            /\ UNCHANGED phys
     ELSE IF SelectFails(phys, routes[name].table.name)
       THEN /\ last' = InternalError("delete", name, id)
            /\ UNCHANGED phys
     ELSE IF \A r \in RowsOf(name) : r.id # id
       THEN /\ last' = NotFoundError("delete", name, id)
            /\ UNCHANGED phys
     ELSE /\ phys' = PhysDelete(phys, routes[name].table.name,
                                CHOOSE r \in RowsOf(name) : r.id = id)
          /\ last' = Response("delete", name, id, 204, "")
  /\ UNCHANGED <<tables, columns, tableSeq, columnSeq, routes, now, calls>>
  /\ StatementsSaved

-----------------------------------------------------------------------------
\* The server.

\* The process stops, with or without notice, and starts again: the requests
\* in progress are gone, AsyncDatabase.init loads the database file, the route
\* table starts empty, and the dynamic-routes plugin registers the tables of
\* the catalog it reads.
Restart ==
  /\ tables' = file.tables
  /\ columns' = file.columns
  /\ tableSeq' = file.tableSeq
  /\ columnSeq' = file.columnSeq
  /\ phys' = file.phys
  /\ routes' = loadAndRegisterAllRoutes(<<>>)'
  /\ calls' = NoCalls
  /\ last' = Response("restart", NoName, 0, 0, "")
  /\ UNCHANGED <<now, file>>

\* First start on an empty database file.
Init ==
  /\ tables = {}
  /\ columns = {}
  /\ tableSeq = 0
  /\ columnSeq = 0
  /\ phys = <<>>
  /\ routes = <<>>
  /\ now = 0
  /\ last = Response("restart", NoName, 0, 0, "")
  /\ file = Export
  /\ calls = NoCalls

\* The bound on the keys a user table hands out: a request is left out when
\* it would take an AUTOINCREMENT sequence beyond max.
RowBudget(max) == \A k \in DOMAIN phys' : phys'[k].seq <= max

CreateTable == \E name \in TableNames : createTable(name)
DeleteTable == \E id \in 1..MaxTableId : deleteTable(id)
CreateColumn == \E id \in 1..MaxTableId, data \in ColumnInputs : createColumn(id, data)
DeleteColumn == \E id \in 1..MaxColumnId : deleteColumn(id)
ListRecords == \E name \in DataNames : listRecords(name, <<>>)
GetRecord == \E name \in DataNames, id \in RowIds : getRecord(name, id)
CreateRecord ==
  \E name \in DataNames, body \in Bodies :
    /\ createRecord(name, body)
    /\ RowBudget(MaxRowId)
UpdateRecord == \E name \in DataNames, id \in RowIds, body \in Bodies : updateRecord(name, id, body)
DeleteRecord == \E name \in DataNames, id \in RowIds : deleteRecord(name, id)

Next ==
  \/ CreateTable
  \/ DeleteTable
  \/ CreateColumn
  \/ DeleteColumn
  \/ ListRecords
  \/ GetRecord
  \/ CreateRecord
  \/ UpdateRecord
  \/ DeleteRecord
  \/ Restart

\* The server and the requests it completes within one second of the clock
\* (Tick, below, is taken where timestamps are told apart).
Spec == Init /\ [][Next]_vars

\* The table operations of the catalog alone.  No other request writes tables,
\* tableSeq or the set of physical tables, so these reach the same values under
\* SpecTables as under Spec.
CreateTableAny == \E name \in TableNames \cup MoreTableNames : createTable(name)

NextTables ==
  \/ CreateTableAny
  \/ DeleteTable
  \/ Restart

SpecTables == Init /\ [][NextTables]_vars

\* The catalog as SchemaService's callers drive it, updateColumn included and
\* no data request: one user table name, names the validation refuses, and
\* the declarations that pass the unique test.
CatalogTableNames == {T_lower, <<"1">>, TablesUpper, LongName}

CatalogColumnInputs ==
  {d \in ColumnInputs : ~d.is_unique} \cup
  {[name |-> n, data_type |-> "string", is_required |-> FALSE,
    is_unique |-> FALSE, default_value |-> Undefined] : n \in {IdUpper, LongName}}

\* ColumnUpdate values: nothing, a rename, a change of the required flag.
ColumnUpdates ==
  {<<>>} \cup {("name" :> n) : n \in {C1, C2, IdUpper, LongName}}
         \cup {("is_required" :> TRUE)}

CreateTableCatalog == \E name \in CatalogTableNames : createTable(name)
CreateColumnCatalog ==
  \E id \in 1..MaxTableId, data \in CatalogColumnInputs : createColumn(id, data)
UpdateColumn == \E id \in 1..MaxColumnId, data \in ColumnUpdates : updateColumn(id, data)

NextCatalog ==
  \/ CreateTableCatalog
  \/ DeleteTable
  \/ CreateColumnCatalog
  \/ UpdateColumn
  \/ DeleteColumn

SpecCatalog == Init /\ [][NextCatalog]_vars

\* A start on the database file an earlier run left: table T_lower, created by
\* create-table and given the columns decls (a sequence of declarations) by
\* create-column; the dynamic-routes plugin registers it.
CatalogOf(decls) == {ColumnRow(i, 1, decls[i]) : i \in DOMAIN decls}

RECURSIVE PhysOf(_)
PhysOf(decls) ==
  IF decls = <<>> THEN PhysCreate(<<>>, T_lower)
  ELSE LET d == decls[Len(decls)] IN
       PhysAddColumn(PhysOf(SubSeq(decls, 1, Len(decls) - 1)), T_lower, d.name,
                     dataTypeMappings(d.data_type), d.is_required,
                     IF Truthy(d.default_value) THEN d.default_value ELSE Null)

StartOn(decls) ==
  /\ tables = {[id |-> 1, name |-> T_lower]}
  /\ tableSeq = 1
  /\ columns = CatalogOf(decls)
  /\ columnSeq = Len(decls)
  /\ phys = PhysOf(decls)
  /\ routes = loadAndRegisterAllRoutes(<<>>)
  /\ now = 0
  /\ last = Response("restart", NoName, 0, 0, "")
  /\ file = Export
  /\ calls = NoCalls

\* The declarations of c1 (string, required) and c2 (number, default 0).
C1C2 ==
  << CHOOSE d \in ColumnInputs : d.name = C1 /\ ~d.is_unique,
     CHOOSE d \in ColumnInputs : d.name = C2 >>

\* The clock passes to the next second; no request completes.
Tick ==
  /\ now < MaxClock
  /\ now' = now + 1
  /\ last' = Response("tick", NoName, 0, 0, "")
  /\ UNCHANGED <<tables, columns, tableSeq, columnSeq, phys, routes, file, calls>>

\* Bodies a data request may carry beyond Bodies: the one body Create takes on
\* c1 and c2, another value of c2, a value of the wrong type, and bodies that
\* name system fields.
RecordBody == (C1 :> Text("A")) @@ (C2 :> Num("5"))
IllTyped == (C2 :> Text("A"))
SystemBodies ==
  { RecordBody @@ (ID :> Num("5")),
    RecordBody @@ (CREATED_AT :> Text("A")),
    RecordBody @@ (IdUpper :> Num("5")),
    (ID :> Num("5")) @@ (C1 :> Text("")),
    (CREATED_AT :> Text("A")) @@ (UPDATED_AT :> Text("A")) @@ (C2 :> Num("0")) }
DataBodies == Bodies \cup {(C2 :> Num("0")), IllTyped} \cup SystemBodies

\* The records of one table, their values and their timestamps.
CreateRecordData ==
  \E body \in DataBodies :
    /\ createRecord(T_lower, body)
    /\ RowBudget(MaxRowId)
UpdateRecordData == \E id \in RowIds, body \in DataBodies : updateRecord(T_lower, id, body)

NextData ==
  \/ CreateRecordData
  \/ UpdateRecordData
  \/ GetRecord
  \/ DeleteRecord
  \/ Tick

SpecData == StartOn(C1C2) /\ [][NextData]_vars

\* The records of one table by their keys, within one second of the clock:
\* pages of List, and requests on keys that are present, deleted or not yet
\* handed out.
QueryValues == {-1, 0, 1, 2, 3, MaxLimit + 1}
Queries == UNION {[d -> QueryValues] : d \in SUBSET {"limit", "offset"}}
RecordIds == 1..MaxRecords

ListPage == \E query \in Queries : listRecords(T_lower, query)
CreateRecordKeyed ==
  /\ createRecord(T_lower, RecordBody)
  /\ RowBudget(MaxRecords)
GetRecordKeyed == \E id \in RecordIds : getRecord(T_lower, id)
UpdateRecordKeyed ==
  \E id \in RecordIds, body \in {RecordBody, IllTyped, <<>>} : updateRecord(T_lower, id, body)
DeleteRecordKeyed == \E id \in RecordIds : deleteRecord(T_lower, id)

NextRecords ==
  \/ ListPage
  \/ CreateRecordKeyed
  \/ GetRecordKeyed
  \/ UpdateRecordKeyed
  \/ DeleteRecordKeyed

SpecRecords == StartOn(C1C2) /\ [][NextRecords]_vars

\* One optional column of every semantic type, and values of every JSON type.
DataTypes == {"string", "text", "number", "decimal", "boolean", "date", "datetime"}

TypedColumn(dt) ==
  [name |-> C1, data_type |-> dt, is_required |-> FALSE,
   is_unique |-> FALSE, default_value |-> Undefined]

TypedValues ==
  {Text(""), Text("A"), Num("0"), Num("5"), Num("-1.5"), Bool(TRUE), Bool(FALSE)}

InitTypes == \E dt \in DataTypes : StartOn(<<TypedColumn(dt)>>)

CreateRecordTyped ==
  \E v \in TypedValues :
    /\ createRecord(T_lower, (C1 :> v))
    /\ RowBudget(MaxRowId)

NextTypes ==
  \/ CreateRecordTyped
  \/ GetRecord
  \/ DeleteRecord

SpecTypes == InitTypes /\ [][NextTypes]_vars

\* The declared columns against the physical ones: one table that starts with
\* no column, with c2, or with c1 and c2, its declarations created, changed and
\* deleted while its data surface is in use, across restarts.
C2Only == << CHOOSE d \in ColumnInputs : d.name = C2 >>

InitDeclared == \E decls \in {<<>>, C2Only, C1C2} : StartOn(decls)

\* ColumnUpdate values beyond ColumnUpdates: the unique flag, the default, and
\* two attributes at once.
AttributeUpdates ==
  { ("is_unique" :> TRUE),
    ("default_value" :> Text("A")),
    ("name" :> C1) @@ ("is_required" :> TRUE) }

DeclaredBodies == {<<>>, (C2 :> Num("5")), RecordBody}

CreateColumnDeclared ==
  \E data \in {d \in ColumnInputs : ~d.is_unique /\ d.name \in {C1, C2}} : createColumn(1, data)
UpdateColumnDeclared ==
  \E id \in 1..MaxColumnId, data \in ColumnUpdates \cup AttributeUpdates : updateColumn(id, data)
CreateRecordDeclared ==
  \E body \in DeclaredBodies :
    /\ createRecord(T_lower, body)
    /\ RowBudget(MaxRowId)

NextDeclared ==
  \/ CreateColumnDeclared
  \/ DeleteColumn
  \/ CreateRecordDeclared
  \/ ListRecords
  \/ GetRecord
  \/ Restart

SpecDeclared == InitDeclared /\ [][NextDeclared]_vars

\* The attributes of the declarations changed by updateColumn while the table
\* holds records.
NextAttributes ==
  \/ UpdateColumnDeclared
  \/ CreateRecordDeclared
  \/ GetRecord

SpecAttributes == InitDeclared /\ [][NextAttributes]_vars

\* Requests of every kind the server refuses or fails on, on the catalog
\* surface and on the data surface of one table, within one run of the server:
\* names and declarations the validation refuses, unknown ids, names in use, a
\* unique declaration, records that are absent, and statements the engine
\* refuses.
ErrorQueries == {<<>>, ("limit" :> 0)}
ErrorBodies == {<<>>, IllTyped, (C2 :> Num("5"))}

ListRecordsErrors == \E query \in ErrorQueries : listRecords(T_lower, query)
UpdateRecordErrors == \E id \in RowIds, body \in ErrorBodies : updateRecord(T_lower, id, body)

NextErrors ==
  \/ CreateTableCatalog
  \/ DeleteTable
  \/ CreateColumn
  \/ DeleteColumn
  \/ ListRecordsErrors
  \/ GetRecord
  \/ CreateRecordDeclared
  \/ UpdateRecordErrors
  \/ DeleteRecord

SpecErrors == InitDeclared /\ [][NextErrors]_vars

\* The registered tables while the catalog changes under them: tables and
\* declarations come and go, refreshRoutes is called in between, and the
\* server restarts.
RefreshRoutes == refreshRoutes
CreateTableRefresh == \E name \in {T_lower, <<"u">>} : createTable(name)

NextRefresh ==
  \/ CreateTableRefresh
  \/ DeleteTable
  \/ CreateColumnDeclared
  \/ DeleteColumn
  \/ RefreshRoutes
  \/ Restart

SpecRefresh == InitDeclared /\ [][NextRefresh]_vars

\* Two create-table requests on an empty catalog, one from each caller, their
\* steps taken in any order.
RaceTableNames == {T_lower, <<"u">>, <<"1">>}

CreateTableLookup == \E i \in Callers, name \in RaceTableNames : createTable_lookup(i, name)
CreateTableInsert == \E i \in Callers : createTable_insert(i)
CreateTableExec == \E i \in Callers : createTable_exec(i)
CreateTableReply == \E i \in Callers : createTable_reply(i)

NextRace ==
  \/ CreateTableLookup
  \/ CreateTableInsert
  \/ CreateTableExec
  \/ CreateTableReply

SpecRace == Init /\ [][NextRace]_vars

\* The database file under writes on a table that starts with c2: create-table
\* statement by statement, the other handlers whole, and the process stopping
\* without notice at any point in between.
NextDurable ==
  \/ CreateTableLookup
  \/ CreateTableInsert
  \/ CreateTableExec
  \/ CreateTableReply
  \/ DeleteTable
  \/ CreateRecordDeclared
  \/ DeleteRecord
  \/ Restart

SpecDurable == StartOn(C2Only) /\ [][NextDurable]_vars

-----------------------------------------------------------------------------
\* Properties.

CatalogOps == {"createTable", "deleteTable", "createColumn", "deleteColumn"}
DataOps == {"list", "get", "create", "update", "delete"}

\* C1: a create-column request with unique=true fails, with 400 BAD_REQUEST when
\* nothing else is wrong with it, and the `columns` catalog is the same after
\* the call as before it.
C1_UniqueColumnLeavesNoRow ==
  [][(last'.op = "createColumn" /\ last'.unique) =>
       /\ last'.status >= 400
       /\ columns' = columns
       /\ (/\ ~validateColumnName(last'.name)
           /\ getTable(last'.id) # {}
           /\ ~ColumnsInsertFails(last'.id, last'.name))
          => (last'.status = 400 /\ last'.code = "BAD_REQUEST")]_vars

\* C2: a create-table that failed at the physical CREATE TABLE step (it answers
\* 500) leaves no catalog row of the requested name.
C2_FailedCreateTableLeavesNoRow ==
  (last.op = "createTable" /\ last.status = 500) =>
    \A t \in tables : t.name # last.name

\* C3: every catalog column of an existing table has a physical column of its
\* name in the physical table of that table.
C3_DeclaredImpliesPhysical ==
  \A c \in columns : \A t \in tables :
    t.id = c.table_id =>
      /\ PhysKey(t.name) \in DOMAIN phys
      /\ toLowerCase(c.name) \in PhysColumnNames(phys, t.name)

\* C4: a delete-table that succeeds leaves no table row of the id, no physical
\* table of the name and no column row of the id; one that fails changes none
\* of the catalog and the physical schema.
C4_DeleteTableAtomicCascade ==
  [][last'.op = "deleteTable" =>
       IF last'.status = 204
         THEN /\ \A t \in tables' : t.id # last'.id
              /\ PhysKey(last'.name) \notin DOMAIN phys'
              /\ \A c \in columns' : c.table_id # last'.id
         ELSE UNCHANGED <<tables, columns, phys>>]_vars

\* C5: after every completed catalog mutation the registered data surfaces are
\* those of the catalog's tables, and a List on the surface of a table in the
\* catalog is answered by that table's handler.
C5_LiveSurfacesMatchCatalog ==
  /\ last.op \in CatalogOps => DOMAIN routes = {t.name : t \in tables}
  /\ (last.op = "list" /\ \E t \in tables : t.name = last.name) => last.handled

\* C6: every call to the data surface of a name that is no table of the catalog
\* is answered 404.
C6_DeletedTableSurfaceGone ==
  (last.op \in DataOps /\ \A t \in tables : t.name # last.name) => last.status = 404

\* C7: after a create-column or delete-column that succeeded, the creation and
\* update descriptors of every registered table of the catalog are those of the
\* table's current columns.
C7_DescriptorsRecomputed ==
  (last.op \in {"createColumn", "deleteColumn"} /\ last.status \in {201, 204}) =>
    \A n \in DOMAIN routes : \A t \in tables :
      t.name = n =>
        /\ generateCreateSchema(routes[n].columns) = generateCreateSchema(listColumns(t.id))
        /\ generateUpdateSchema(routes[n].columns) = generateUpdateSchema(listColumns(t.id))

\* C8: a create-table that succeeds leaves the one catalog row of that name, the
\* row it returns; a create-table of a name the catalog holds answers 409
\* DUPLICATE_ERROR and leaves the catalog as it was, with one row of the name.
C8_CreateThenGetAndDuplicate ==
  [][last'.op = "createTable" =>
       /\ last'.status = 201 =>
            {t \in tables' : t.name = last'.name} = {[id |-> last'.id, name |-> last'.name]}
       /\ (\E t \in tables : t.name = last'.name) =>
            /\ last'.status = 409
            /\ last'.code = "DUPLICATE_ERROR"
            /\ tables' = tables
            /\ Cardinality({t \in tables' : t.name = last'.name}) = 1]_vars

\* A second create-table of a name was answered 409 and the name is in the catalog.
C8_Witness ==
  /\ last.op = "createTable"
  /\ last.status = 409
  /\ \E t \in tables : t.name = last.name

\* The table a data request addresses is declared with a required and an
\* optional column, its handlers captured the current declarations, and every
\* declared column is physical.
RequiredAndOptional(name) ==
  /\ name \in DOMAIN routes
  /\ \E t \in tables :
       /\ t.name = name
       /\ routes[name].table = t
       /\ routes[name].columns = listColumns(t.id)
       /\ \E c \in listColumns(t.id) : c.is_required
       /\ \E c \in listColumns(t.id) : ~c.is_required
       /\ PhysKey(name) \in DOMAIN phys
       /\ {c.name : c \in listColumns(t.id)} = {c.name : c \in phys[PhysKey(name)].cols}

RequiredNames(name) ==
  {c.name : c \in {d \in columns : \E t \in tables :
                     t.name = name /\ d.table_id = t.id /\ d.is_required}}

\* C9: on a table with a required and an optional column, a Create whose body
\* omits a required column is answered 400 and inserts nothing, and a Create
\* whose body holds the required columns only is answered 201 with the record.
C9_CreateRequiresExactlyRequired ==
  [][(last'.op = "create" /\ RequiredAndOptional(last'.name)) =>
       /\ ~(RequiredNames(last'.name) \subseteq DOMAIN last'.body) =>
            (last'.status = 400 /\ phys' = phys)
       /\ (/\ DOMAIN last'.body = RequiredNames(last'.name)
           /\ \A f \in DOMAIN last'.body : Truthy(last'.body[f])) =>
            (last'.status = 201 /\ last'.data # NoRow)]_vars

\* C10: on a table with a required column and an optional column of default d,
\* the record a Create with the required columns only returns carries d in the
\* optional column.
C10_CreateReturnsDefault ==
  (/\ last.op = "create"
   /\ RequiredAndOptional(last.name)
   /\ DOMAIN last.body = RequiredNames(last.name)
   /\ \A f \in DOMAIN last.body : Truthy(last.body[f])) =>
    /\ last.status = 201
    /\ \A t \in tables : \A c \in listColumns(t.id) :
         (t.name = last.name /\ ~c.is_required /\ c.default_value # Null) =>
           /\ c.name \in DOMAIN last.data.vals
           /\ last.data.vals[c.name] = Affinity(dataTypeMappings(c.data_type), c.default_value)

\* The keys of a set of records, and the keys a table handed out and no longer
\* holds.
Ids(rows) == {r.id : r \in rows}
Gone(p, k) == (1..p[k].seq) \ Ids(p[k].rows)

\* The body of the last request as the update descriptor of its table leaves it.
UpdateBodyOf(l) == ValidateBody(generateUpdateSchema(routes[l.name].columns), l.body)

\* C11: an Update of an existing record with a body that passes the update
\* descriptor, the empty body included, is answered 200 with the record in
\* which the supplied fields carry the new values, the other fields, id and
\* created_at are as before, and updated_at is the time of the request.
C11_UpdateIsPartial ==
  [][(/\ last'.op = "update"
      /\ last'.name \in DOMAIN routes
      /\ PhysKey(last'.name) \in DOMAIN phys
      /\ last'.id \in Ids(RowsOf(last'.name))
      /\ UpdateBodyOf(last').ok) =>
       LET row == CHOOSE r \in RowsOf(last'.name) : r.id = last'.id
           new == UpdateBodyOf(last').body
       IN /\ last'.status = 200
          /\ last'.data.id = row.id
          /\ last'.data.created_at = row.created_at
          /\ last'.data.updated_at = Stamp(now)
          /\ DOMAIN last'.data.vals = DOMAIN row.vals
          /\ \A n \in DOMAIN row.vals :
               last'.data.vals[n] = IF n \in DOMAIN new THEN new[n] ELSE row.vals[n]]_vars

\* The parameters of the last List request, with the defaults.
LimitOf(l) == IF "limit" \in DOMAIN l.body THEN l.body["limit"] ELSE DefaultLimit
OffsetOf(l) == IF "offset" \in DOMAIN l.body THEN l.body["offset"] ELSE 0
Min(a, b) == IF a < b THEN a ELSE b
Max(a, b) == IF a < b THEN b ELSE a

\* C12: a List with limit L in 1..100 (default 20) and offset O >= 0 (default
\* 0) on a table of n records is answered with min(L, max(0, n - O)) records,
\* total n, and hasMore exactly when O plus the records returned is below n.
C12_Pagination ==
  (/\ last.op = "list"
   /\ last.name \in DOMAIN routes
   /\ PhysKey(last.name) \in DOMAIN phys
   /\ LimitOf(last) \in 1..MaxLimit
   /\ OffsetOf(last) >= 0) =>
    LET n == Cardinality(RowsOf(last.name)) IN
    /\ last.status = 200
    /\ Len(last.page.data) = Min(LimitOf(last), Max(0, n - OffsetOf(last)))
    /\ last.page.total = n
    /\ last.page.hasMore <=> (OffsetOf(last) + Len(last.page.data) < n)

\* A page that stops at its limit with records left, asked for at an offset.
C12_Witness ==
  /\ last.op = "list"
  /\ last.status = 200
  /\ OffsetOf(last) >= 1
  /\ Len(last.page.data) = LimitOf(last)
  /\ last.page.hasMore

\* C13: of any two records of a List response, the one created later (the one
\* of the larger key) comes first.
C13_NewestFirst ==
  (last.op = "list" /\ last.status = 200) =>
    \A i, j \in DOMAIN last.page.data :
      i < j => last.page.data[i].id > last.page.data[j].id

\* The columns the handlers of the last request's table captured.
ColumnsOf(l) == routes[l.name].columns

\* C14: a Create that is answered 201, posted with values of the JSON type of
\* their columns, followed by a Get of the returned id, yields for every posted
\* field the value that was posted.
C14_RoundTrip ==
  [][(/\ last.op = "create"
      /\ last.status = 201
      /\ \A f \in DOMAIN last.body :
           /\ f \in {c.name : c \in UserColumns(ColumnsOf(last))}
           /\ Coerce(TypeOf(ColumnsOf(last), f), last.body[f]) = last.body[f]
      /\ last'.op = "get"
      /\ last'.name = last.name
      /\ last'.id = last.id) =>
       /\ last'.status = 200
       /\ \A f \in DOMAIN last.body : last'.data.vals[f] = last.body[f]]_vars

C17_RejectedLeavesNoTrace ==
  [][(/\ last'.op \in CatalogOps \cup {"updateColumn"}
      /\ last'.code \in {"VALIDATION_ERROR", "NOT_FOUND", "DUPLICATE_ERROR"}) =>
       UNCHANGED <<tables, columns, tableSeq, columnSeq, phys>>]_vars

\* A rename to a reserved name was refused on a catalog that holds columns.
C17_Witness ==
  /\ last.op = "updateColumn"
  /\ last.code = "VALIDATION_ERROR"
  /\ \E c \in columns : c.id = last.id

C19_NameInvariant ==
  /\ \A t \in tables :
       /\ MatchesGrammar(t.name)
       /\ Len(t.name) <= MaxNameLength
       /\ toLowerCase(t.name) \notin RESERVED_TABLES
  /\ \A c \in columns :
       /\ MatchesGrammar(c.name)
       /\ Len(c.name) <= MaxNameLength
       /\ toLowerCase(c.name) \notin RESERVED_COLUMNS

\* The catalog holds a table and a column that update-column renamed.
C19_Witness ==
  /\ tables # {}
  /\ last.op = "updateColumn"
  /\ last.status = 200
  /\ \E c \in columns : c.id = last.id /\ c.name = C2 /\ c.data_type = "string"

\* C20: no two rows of `columns` share table_id and name, and a create-column
\* or a renaming update-column that would make two do so is answered 409
\* DUPLICATE_ERROR.
C20_ColumnNamesUnique ==
  [][/\ \A c, d \in columns' : (c.table_id = d.table_id /\ c.name = d.name) => c = d
     /\ (/\ last'.op = "createColumn"
         /\ getTable(last'.id) # {}
         /\ \E c \in columns : c.table_id = last'.id /\ c.name = last'.name) =>
          (last'.status = 409 /\ last'.code = "DUPLICATE_ERROR")
     /\ (/\ last'.op = "updateColumn"
         /\ \E c, d \in columns :
              c.id = last'.id /\ d # c /\ d.table_id = c.table_id /\ d.name = last'.name) =>
          (last'.status = 409 /\ last'.code = "DUPLICATE_ERROR")]_vars

\* C21: a delete-column that succeeds removes the one row of that id from the
\* `columns` catalog and leaves every other catalog row, the physical columns
\* of every table and every stored record as they were.
C21_DeleteColumnFrame ==
  [][(last'.op = "deleteColumn" /\ last'.status = 204) =>
       /\ \E c \in columns : c.id = last'.id /\ columns' = columns \ {c}
       /\ UNCHANGED <<tables, phys>>]_vars

\* A column was deleted from the catalog of a table that holds a record with a
\* value in that column, next to another declared column.
C21_Witness ==
  /\ last.op = "deleteColumn"
  /\ last.status = 204
  /\ columns # {}
  /\ \E r \in phys[T_lower].rows : last.name \in DOMAIN r.vals /\ r.vals[last.name] # Null

\* The attributes of a `columns` row.
ColumnAttributes ==
  {"id", "table_id", "name", "data_type", "is_required", "is_unique", "default_value"}

\* C22: whatever an update-column carries and however it is answered, the
\* tables, the physical columns and the stored records are as before, every
\* other `columns` row is as before, and the addressed row differs at most in
\* the attributes the request carries, which then hold the values it carries.
C22_UpdateColumnFrame ==
  [][last'.op = "updateColumn" =>
       /\ UNCHANGED <<tables, phys>>
       /\ {c.id : c \in columns'} = {c.id : c \in columns}
       /\ \A c \in columns : \A d \in columns' :
            d.id = c.id =>
              /\ d.id # last'.id => d = c
              /\ \A a \in ColumnAttributes \ DOMAIN last'.body : d[a] = c[a]
              /\ (d.id = last'.id /\ last'.status = 200) =>
                   \A a \in DOMAIN last'.body : d[a] = last'.body[a]]_vars

\* The required flag of a declaration was set while the other declaration and
\* a stored record are in place.
C22_Witness ==
  /\ last.op = "updateColumn"
  /\ last.status = 200
  /\ DOMAIN last.body = {"is_required"}
  /\ \E c \in columns : c.id = last.id /\ c.is_required /\ c.default_value # Null
  /\ \E c \in columns : c.id # last.id
  /\ phys[T_lower].rows # {}

ErrorCodes ==
  {"VALIDATION_ERROR", "NOT_FOUND", "DUPLICATE_ERROR", "BAD_REQUEST", "INTERNAL_SERVER_ERROR"}

C24_RegistrationIdempotent ==
  [][last'.op # "restart" =>
       /\ \A n \in DOMAIN routes : n \in DOMAIN routes' /\ routes'[n] = routes[n]
       /\ (last'.op = "refreshRoutes" /\ last.op \in {"refreshRoutes", "restart"}) =>
            routes' = routes]_vars

\* refreshRoutes ran while a registered table's declarations differ from the
\* ones its handlers were mounted over, and a table created since the start is
\* registered.
C24_Witness ==
  /\ last.op = "refreshRoutes"
  /\ \E n \in DOMAIN routes : \E t \in tables :
       t.name = n /\ routes[n].columns # listColumns(t.id)
  /\ \E n \in DOMAIN routes : routes[n].table.id > 1

\* C27: when the server has started, the registered names are the names of the
\* catalog's tables, each with handlers mounted over its catalog row and its
\* declared columns of that moment.
C27_StartRegistersCatalog ==
  last.op = "restart" =>
    /\ DOMAIN routes = {t.name : t \in tables}
    /\ \A t \in tables :
         routes[t.name] = [table |-> t, columns |-> listColumns(t.id)]

\* The server restarted on a catalog of two tables, one of them created and
\* given a changed set of declarations during the run before.
C27_Witness ==
  /\ last.op = "restart"
  /\ Cardinality(tables) >= 2
  /\ columnSeq > Cardinality(columns)

\* C28: a create-column with unique=false of a name that was declared on the
\* table and deleted from the catalog (the physical column is still there) is
\* answered 201, and afterwards the catalog row and the physical column of
\* that name both exist.
C28_RedeclareDeleted ==
  [][(/\ last'.op = "createColumn"
      /\ ~last'.unique
      /\ \E t \in tables :
           /\ t.id = last'.id
           /\ PhysKey(t.name) \in DOMAIN phys
           /\ last'.name \in {c.name : c \in phys[PhysKey(t.name)].cols}
           /\ \A c \in listColumns(t.id) : c.name # last'.name) =>
       /\ last'.status = 201
       /\ \E c \in columns' : c.table_id = last'.id /\ c.name = last'.name
       /\ \E t \in tables :
            /\ t.id = last'.id
            /\ last'.name \in {c.name : c \in phys'[PhysKey(t.name)].cols}]_vars

\* The names of the columns currently declared on the table of name n.
DeclaredNames(n) ==
  {c.name : c \in {d \in columns : \E t \in tables : t.name = n /\ d.table_id = t.id}}

\* C29: every record a List or a Get returns carries, beside the system
\* fields, fields of currently declared columns only: no field of a column
\* that was deleted from the catalog.
C29_DeletedColumnNotExposed ==
  /\ (last.op = "get" /\ last.status = 200) =>
       DOMAIN last.data.vals \subseteq DeclaredNames(last.name)
  /\ (last.op = "list" /\ last.status = 200) =>
       \A i \in DOMAIN last.page.data :
         DOMAIN last.page.data[i].vals \subseteq DeclaredNames(last.name)

\* C30: on a table none of whose declared columns is required, the table with
\* no declared column included, a Create with the empty body is answered 201
\* with a record whose id, created_at and updated_at are set, and the table
\* holds exactly one record more.
C30_CreateWithEmptyBody ==
  [][(/\ last'.op = "create"
      /\ DOMAIN last'.body = {}
      /\ last'.name \in DOMAIN routes
      /\ PhysKey(last'.name) \in DOMAIN phys
      /\ \E t \in tables :
           /\ t.name = last'.name
           /\ routes[last'.name].columns = listColumns(t.id)
           /\ \A c \in listColumns(t.id) : ~c.is_required
           /\ \A c \in phys[PhysKey(t.name)].cols :
                c.name \in DeclaredNames(t.name) /\ ~c.notnull) =>
       /\ last'.status = 201
       /\ last'.data.id >= 1
       /\ last'.data.created_at # Null
       /\ last'.data.updated_at # Null
       /\ Cardinality(phys'[PhysKey(last'.name)].rows) =
            Cardinality(phys[PhysKey(last'.name)].rows) + 1]_vars

\* C25: of two create-table requests for the same valid name on a catalog that
\* does not hold it, however their steps take turns, one is answered 201 and
\* the other 409 DUPLICATE_ERROR, and the catalog then holds one row and the
\* engine one table of that name.
C25_CreateTableSerialized ==
  \A i, j \in Callers :
    (/\ i # j
     /\ calls[i].pc = "done"
     /\ calls[j].pc = "done"
     /\ calls[i].name = calls[j].name
     /\ ~NameSchemaRejects(calls[i].name)
     /\ ~validateTableName(calls[i].name)) =>
      /\ {calls[i].status, calls[j].status} = {201, 409}
      /\ \A k \in {i, j} : calls[k].status = 409 => calls[k].code = "DUPLICATE_ERROR"
      /\ Cardinality({t \in tables : t.name = calls[i].name}) = 1
      /\ PhysKey(calls[i].name) \in DOMAIN phys

\* C26: after every statement that run or exec completed, and so after every
\* step of every handler, the database file holds the database in memory; a
\* process that stops and starts again finds every table, declaration and
\* record that a completed statement wrote.
C26_FlushedAfterWrite ==
  [][/\ file' = Export'
     /\ Restart => UNCHANGED <<tables, columns, tableSeq, columnSeq, phys>>]_vars

\* The process stopped between the INSERT and the CREATE TABLE of a
\* create-table and started again: the catalog row is there, the table is not,
\* and the records written before are.
C26_Witness ==
  /\ last.op = "restart"
  /\ \E t \in tables : PhysKey(t.name) \notin DOMAIN phys
  /\ \E k \in DOMAIN phys : phys[k].rows # {}

====
